---- MODULE Spec2Model ----
(***************************************************************************)
(* The two-pass Hack assembler of Project6/Assembler/n2tAssembler.c.       *)
(*                                                                         *)
(* The input file is a sequence of lines, each a sequence of characters    *)
(* that ends with CR LF.  Memory holds bytes: Ord gives a character's      *)
(* code, gInsFields is the ISA_Field structure as the 42 bytes it          *)
(* occupies (its five character arrays lie one after the other, so a       *)
(* store past the end of one array lands in the next), the symbol table    *)
(* is the sequence of the slots written so far.  One step of the model is  *)
(* one iteration of the reading loop of firstPass or of secondPass.        *)
(*                                                                         *)
(* Reads past the 100 bytes of the line buffer see the bytes that lie      *)
(* above it on the stack: they are not fixed by the program, so a step     *)
(* draws them from StackSamples, and a read past the drawn bytes is a      *)
(* fault (the process is killed).  Stores past the end of gInsFields land  *)
(* in the objects that follow it (inputFile and outputFile), which the     *)
(* two passes never read: they are dropped.  A conversion of an            *)
(* out-of-range double to uint16_t draws its result from ConvModes.        *)
(***************************************************************************)
EXTENDS Integers, Sequences, FiniteSets, TLC

VARIABLES program, pc, filePos, lineCount, gSymbolTable, gSymbolTableMeta,
          gInsFields, outFile, lineOut

vars == <<program, pc, filePos, lineCount, gSymbolTable, gSymbolTableMeta,
          gInsFields, outFile, lineOut>>

(* ------------------------------ macros --------------------------------- *)
SYSTEM_SUCCESS == 1
SYSTEM_FAILURE == -1
LINEBUFFER_SIZE == 100
BITFIELD_MAX == 16
COMP_FIELD_LEN == 7
DEST_FIELD_LEN == 3
JUMP_FIELD_LEN == 3
C_INST_PAD_LEN == 3
INVALID_VALUE == 255
CURR_MEMORY == 16
SYMBOLTABLE_TAIL == 23

(* ISA_Field: the offset of each array in the structure, and its size.     *)
DEST_OFF == 0
JMP_OFF == 5
CMP_OFF == 10
ADD_OFF == 15
BIT_OFF == 25
ISA_FIELD_SIZE == 42

(* ------------------------------ characters ----------------------------- *)
Ord ==
  (" " :> 32) @@ ("!" :> 33) @@ ("#" :> 35) @@ ("$" :> 36) @@ ("%" :> 37) @@
  ("&" :> 38) @@ ("(" :> 40) @@ (")" :> 41) @@ ("*" :> 42) @@ ("+" :> 43) @@
  ("," :> 44) @@ ("-" :> 45) @@ ("." :> 46) @@ ("/" :> 47) @@ ("0" :> 48) @@ ("1" :> 49) @@
  ("2" :> 50) @@ ("3" :> 51) @@ ("4" :> 52) @@ ("5" :> 53) @@ ("6" :> 54) @@ ("7" :> 55) @@
  ("8" :> 56) @@ ("9" :> 57) @@ (":" :> 58) @@ (";" :> 59) @@ ("<" :> 60) @@ ("=" :> 61) @@
  (">" :> 62) @@ ("?" :> 63) @@ ("@" :> 64) @@ ("A" :> 65) @@ ("B" :> 66) @@ ("C" :> 67) @@
  ("D" :> 68) @@ ("E" :> 69) @@ ("F" :> 70) @@ ("G" :> 71) @@ ("H" :> 72) @@ ("I" :> 73) @@
  ("J" :> 74) @@ ("K" :> 75) @@ ("L" :> 76) @@ ("M" :> 77) @@ ("N" :> 78) @@ ("O" :> 79) @@
  ("P" :> 80) @@ ("Q" :> 81) @@ ("R" :> 82) @@ ("S" :> 83) @@ ("T" :> 84) @@ ("U" :> 85) @@
  ("V" :> 86) @@ ("W" :> 87) @@ ("X" :> 88) @@ ("Y" :> 89) @@ ("Z" :> 90) @@ ("[" :> 91) @@
  ("]" :> 93) @@ ("^" :> 94) @@ ("_" :> 95) @@ ("a" :> 97) @@
  ("b" :> 98) @@ ("c" :> 99) @@ ("d" :> 100) @@ ("e" :> 101) @@ ("f" :> 102) @@ ("g" :> 103) @@
  ("h" :> 104) @@ ("i" :> 105) @@ ("j" :> 106) @@ ("k" :> 107) @@ ("l" :> 108) @@ ("m" :> 109) @@
  ("n" :> 110) @@ ("o" :> 111) @@ ("p" :> 112) @@ ("q" :> 113) @@ ("r" :> 114) @@ ("s" :> 115) @@
  ("t" :> 116) @@ ("u" :> 117) @@ ("v" :> 118) @@ ("w" :> 119) @@ ("x" :> 120) @@ ("y" :> 121) @@
  ("z" :> 122) @@ ("{" :> 123) @@ ("|" :> 124) @@ ("}" :> 125) @@ ("~" :> 126) @@ ("\r" :> 13) @@
  ("\n" :> 10)

NUL == 0
FAULT == -1

Bytes(s) == [i \in 1..Len(s) |-> Ord[s[i]]]

CR == Ord["\r"]
LF == Ord["\n"]

(* ------------------------------ tables --------------------------------- *)
(* The three look-up tables and the initial symbol table, as written in    *)
(* the source; Encoded gives a table with its strings as bytes.            *)
compFieldLT ==
  <<
     [mnemonic |-> <<"0">>,             binary |-> <<"0", "1", "0", "1", "0", "1", "0">>],
     [mnemonic |-> <<"1">>,             binary |-> <<"0", "1", "1", "1", "1", "1", "1">>],
     [mnemonic |-> <<"-", "1">>,        binary |-> <<"0", "1", "1", "1", "0", "1", "0">>],
     [mnemonic |-> <<"D">>,             binary |-> <<"0", "0", "0", "1", "1", "0", "0">>],
     [mnemonic |-> <<"A">>,             binary |-> <<"0", "1", "1", "0", "0", "0", "0">>],
     [mnemonic |-> <<"!", "D">>,        binary |-> <<"0", "0", "0", "1", "1", "0", "1">>],
     [mnemonic |-> <<"!", "A">>,        binary |-> <<"0", "1", "1", "0", "0", "0", "1">>],
     [mnemonic |-> <<"-", "D">>,        binary |-> <<"0", "0", "0", "1", "1", "1", "1">>],
     [mnemonic |-> <<"-", "A">>,        binary |-> <<"0", "1", "1", "0", "0", "1", "1">>],
     [mnemonic |-> <<"D", "+", "1">>,   binary |-> <<"0", "0", "1", "1", "1", "1", "1">>],
     [mnemonic |-> <<"A", "+", "1">>,   binary |-> <<"0", "1", "1", "0", "1", "1", "1">>],
     [mnemonic |-> <<"D", "-", "1">>,   binary |-> <<"0", "0", "0", "1", "1", "1", "0">>],
     [mnemonic |-> <<"A", "-", "1">>,   binary |-> <<"0", "1", "1", "0", "0", "1", "0">>],
     [mnemonic |-> <<"D", "+", "A">>,   binary |-> <<"0", "0", "0", "0", "0", "1", "0">>],
     [mnemonic |-> <<"D", "-", "A">>,   binary |-> <<"0", "0", "1", "0", "0", "1", "1">>],
     [mnemonic |-> <<"A", "-", "D">>,   binary |-> <<"0", "0", "0", "0", "1", "1", "1">>],
     [mnemonic |-> <<"D", "&", "A">>,   binary |-> <<"0", "0", "0", "0", "0", "0", "0">>],
     [mnemonic |-> <<"D", "|", "A">>,   binary |-> <<"0", "0", "1", "0", "1", "0", "1">>],
     [mnemonic |-> <<"M">>,             binary |-> <<"1", "1", "1", "0", "0", "0", "0">>],
     [mnemonic |-> <<"!", "M">>,        binary |-> <<"1", "1", "1", "0", "0", "0", "1">>],
     [mnemonic |-> <<"-", "M">>,        binary |-> <<"1", "1", "1", "0", "0", "1", "1">>],
     [mnemonic |-> <<"M", "+", "1">>,   binary |-> <<"1", "1", "1", "0", "1", "1", "1">>],
     [mnemonic |-> <<"M", "-", "1">>,   binary |-> <<"1", "1", "1", "0", "0", "1", "0">>],
     [mnemonic |-> <<"D", "+", "M">>,   binary |-> <<"1", "0", "0", "0", "0", "1", "0">>],
     [mnemonic |-> <<"D", "-", "M">>,   binary |-> <<"1", "0", "1", "0", "0", "1", "1">>],
     [mnemonic |-> <<"M", "-", "D">>,   binary |-> <<"1", "0", "0", "0", "1", "1", "1">>],
     [mnemonic |-> <<"D", "&", "M">>,   binary |-> <<"1", "0", "0", "0", "0", "0", "0">>],
     [mnemonic |-> <<"D", "|", "M">>,   binary |-> <<"1", "0", "1", "0", "1", "0", "1">>]
  >>

destFieldLT ==
  <<
     [mnemonic |-> <<>>,                binary |-> <<"0", "0", "0">>],
     [mnemonic |-> <<"M">>,             binary |-> <<"0", "0", "1">>],
     [mnemonic |-> <<"D">>,             binary |-> <<"0", "1", "0">>],
     [mnemonic |-> <<"M", "D">>,        binary |-> <<"0", "1", "1">>],
     [mnemonic |-> <<"A">>,             binary |-> <<"1", "0", "0">>],
     [mnemonic |-> <<"A", "M">>,        binary |-> <<"1", "0", "1">>],
     [mnemonic |-> <<"A", "D">>,        binary |-> <<"1", "1", "0">>],
     [mnemonic |-> <<"A", "M", "D">>,   binary |-> <<"1", "1", "1">>]
  >>

jumpFieldLT ==
  <<
     [mnemonic |-> <<>>,                binary |-> <<"0", "0", "0">>],
     [mnemonic |-> <<"J", "G", "T">>,   binary |-> <<"0", "0", "1">>],
     [mnemonic |-> <<"J", "E", "Q">>,   binary |-> <<"0", "1", "0">>],
     [mnemonic |-> <<"J", "G", "E">>,   binary |-> <<"0", "1", "1">>],
     [mnemonic |-> <<"J", "L", "T">>,   binary |-> <<"1", "0", "0">>],
     [mnemonic |-> <<"J", "N", "E">>,   binary |-> <<"1", "0", "1">>],
     [mnemonic |-> <<"J", "L", "E">>,   binary |-> <<"1", "1", "0">>],
     [mnemonic |-> <<"J", "M", "P">>,   binary |-> <<"1", "1", "1">>]
  >>

PredefinedSymbols ==
  <<
     [name |-> <<"R", "0">>,                        value |-> 0],
     [name |-> <<"R", "1">>,                        value |-> 1],
     [name |-> <<"R", "2">>,                        value |-> 2],
     [name |-> <<"R", "3">>,                        value |-> 3],
     [name |-> <<"R", "4">>,                        value |-> 4],
     [name |-> <<"R", "5">>,                        value |-> 5],
     [name |-> <<"R", "6">>,                        value |-> 6],
     [name |-> <<"R", "7">>,                        value |-> 7],
     [name |-> <<"R", "8">>,                        value |-> 8],
     [name |-> <<"R", "9">>,                        value |-> 9],
     [name |-> <<"R", "1", "0">>,                   value |-> 10],
     [name |-> <<"R", "1", "1">>,                   value |-> 11],
     [name |-> <<"R", "1", "2">>,                   value |-> 12],
     [name |-> <<"R", "1", "3">>,                   value |-> 13],
     [name |-> <<"R", "1", "4">>,                   value |-> 14],
     [name |-> <<"R", "1", "5">>,                   value |-> 15],
     [name |-> <<"S", "C", "R", "E", "E", "N">>,    value |-> 16384],
     [name |-> <<"K", "B", "D">>,                   value |-> 24576],
     [name |-> <<"S", "P">>,                        value |-> 0],
     [name |-> <<"L", "C", "L">>,                   value |-> 1],
     [name |-> <<"A", "R", "G">>,                   value |-> 2],
     [name |-> <<"T", "H", "I", "S">>,              value |-> 3],
     [name |-> <<"T", "H", "A", "T">>,              value |-> 4]
  >>


Encoded(table) ==
  [k \in 1..Len(table) |->
     [mnemonic |-> Bytes(table[k].mnemonic), binary |-> Bytes(table[k].binary)]]

compTable == Encoded(compFieldLT)

destTable == Encoded(destFieldLT)

jumpTable == Encoded(jumpFieldLT)

(* ------------------------------ memory --------------------------------- *)
(* *(lineBuffer + p): the line fgets stored, then the zeros the buffer was *)
(* cleared to, then the stack above the buffer, then unmapped memory.      *)
Byte(buf, stk, p) ==
  IF p < Len(buf) THEN buf[p + 1]
  ELSE IF p < LINEBUFFER_SIZE THEN NUL
  ELSE IF p - LINEBUFFER_SIZE < Len(stk) THEN stk[p - LINEBUFFER_SIZE + 1]
  ELSE FAULT

(* A store at byte off of gInsFields.                                      *)
StoreByte(mem, off, v) ==
  IF off \in DOMAIN mem THEN [mem EXCEPT ![off] = v] ELSE mem

MemSet(mem, off, v, n) ==
  [i \in DOMAIN mem |-> IF off <= i /\ i < off + n THEN v ELSE mem[i]]

(* The C string that starts at byte off of gInsFields.                     *)
RECURSIVE CStrAt(_, _)
CStrAt(mem, off) ==
  IF off \notin DOMAIN mem \/ mem[off] = NUL THEN <<>>
  ELSE <<mem[off]>> \o CStrAt(mem, off + 1)

RECURSIVE StrCpy(_, _, _)
StrCpy(mem, off, s) ==
  IF s = <<>> THEN StoreByte(mem, off, NUL)
  ELSE StrCpy(StoreByte(mem, off, Head(s)), off + 1, Tail(s))

Uint8(n) == n % 256

varInit(mem) ==
  [i \in DOMAIN mem |-> IF ADD_OFF <= i /\ i < BIT_OFF THEN INVALID_VALUE ELSE NUL]

ZeroFields == [i \in 0..(ISA_FIELD_SIZE - 1) |-> NUL]

(* ------------------------------ lineCommand ---------------------------- *)
ConvModes == {"wrap", "saturate"}

INT_MAX == 2147483647

Abs(n) == IF n < 0 THEN -n ELSE n

InRange(d) == 0 <= d /\ d <= 65535

(* (uint16_t)(addr + c * pow(10, k)): the sum when it is in the range of   *)
(* uint16_t; otherwise the conversion is undefined, and gives the low 16   *)
(* bits of the conversion to a 32-bit integer (0 when that fails too), or  *)
(* the nearest end of the range.  ub records that this happened.           *)
Converted(d, conv) ==
  IF InRange(d) THEN d
  ELSE IF conv = "wrap" THEN d % 65536
  ELSE IF d < 0 THEN 0 ELSE 65535

AddTerm(a, c, k, conv) ==
  IF Abs(c) > INT_MAX \div (10 ^ k) \/ c * (10 ^ k) > INT_MAX - a.addr
  THEN [addr |-> IF conv = "wrap" \/ c < 0 THEN 0 ELSE 65535, ub |-> TRUE]
  ELSE [addr |-> Converted(a.addr + c * (10 ^ k), conv),
        ub   |-> a.ub \/ ~InRange(a.addr + c * (10 ^ k))]

(* addr += (addFldString[i] - '0') * pow(10, powTen), i = 0 .. strlength-1 *)
RECURSIVE AddrLoop(_, _, _, _)
AddrLoop(s, i, a, conv) ==
  IF i >= Len(s) THEN a
  ELSE AddrLoop(s, i + 1, AddTerm(a, s[i + 1] - Ord["0"], Len(s) - 1 - i, conv), conv)

(* BitChar with the mask one bit higher: (addr & (2 << bitPos)).          *)
BitCharShifted(addr, bitPos) == ((addr \div (2 ^ (bitPos + 1))) % 2) + Ord["0"]

(* ((addr & (1 << bitPos)) >> bitPos) + '0'                                *)
BitChar(addr, bitPos) == ((addr \div (2 ^ bitPos)) % 2) + Ord["0"]

AddressBits(mem, a) ==
  [status |-> SYSTEM_SUCCESS,
   ub     |-> a.ub,
   mem    |-> [i \in DOMAIN mem |->
                 IF BIT_OFF <= i /\ i < BIT_OFF + BITFIELD_MAX
                 THEN BitChar(a.addr, BITFIELD_MAX - 1 - (i - BIT_OFF))
                 ELSE IF i = BIT_OFF + BITFIELD_MAX THEN NUL ELSE mem[i]]]

(* The first entry of a table, from k on, whose mnemonic is str (0: none). *)
RECURSIVE TableIndex(_, _, _)
TableIndex(table, str, k) ==
  IF k > Len(table) THEN 0
  ELSE IF table[k].mnemonic = str THEN k
  ELSE TableIndex(table, str, k + 1)

(* The look-up of one field: on a match its code is copied to bitOff.      *)
CopyCode(table, r, bitOff, idx) ==
  IF idx = 0 THEN [r EXCEPT !.status = SYSTEM_FAILURE]
  ELSE [r EXCEPT !.mem = StrCpy(@, bitOff, table[idx].binary)]

LookUp(table, r, fieldOff, bitOff) ==
  IF r.status = SYSTEM_FAILURE THEN r
  ELSE CopyCode(table, r, bitOff, TableIndex(table, CStrAt(r.mem, fieldOff), 1))

Terminated(r) ==
  IF r.status = SYSTEM_FAILURE THEN r
  ELSE [r EXCEPT !.mem = StoreByte(@, BIT_OFF + C_INST_PAD_LEN + COMP_FIELD_LEN
                                      + DEST_FIELD_LEN + JUMP_FIELD_LEN, NUL)]

ComputationBits(mem) ==
  Terminated(
    LookUp(jumpTable,
      LookUp(destTable,
        LookUp(compTable,
               [status |-> SYSTEM_SUCCESS, ub |-> FALSE,
                mem |-> MemSet(mem, BIT_OFF, Ord["1"], C_INST_PAD_LEN)],
               CMP_OFF, BIT_OFF + C_INST_PAD_LEN),
        DEST_OFF, BIT_OFF + C_INST_PAD_LEN + COMP_FIELD_LEN),
      JMP_OFF, BIT_OFF + C_INST_PAD_LEN + COMP_FIELD_LEN + DEST_FIELD_LEN))

CommandOn(mem, conv) ==
  IF mem[ADD_OFF] # INVALID_VALUE
  THEN AddressBits(mem, AddrLoop(CStrAt(mem, ADD_OFF), 0, [addr |-> 0, ub |-> FALSE], conv))
  ELSE ComputationBits(mem)

lineCommand(mem, conv) == CommandOn(MemSet(mem, BIT_OFF, NUL, ISA_FIELD_SIZE - BIT_OFF), conv)

(* ------------------------------ symbol table --------------------------- *)
ZeroEntry == [symbol |-> <<>>, value |-> 0]

(* gSymbolTable[k] = e, k counted from 0.                                  *)
SetEntry(tab, k, e) ==
  [i \in 1..(IF k + 1 > Len(tab) THEN k + 1 ELSE Len(tab)) |->
     IF i = k + 1 THEN e ELSE IF i <= Len(tab) THEN tab[i] ELSE ZeroEntry]

Entry(tab, k) == IF k < Len(tab) THEN tab[k + 1] ELSE ZeroEntry

(* FoundEntry with the search from the tail down: the last match.         *)
FoundLast(tab, tail, str, i) ==
  IF \E k \in i..(tail - 1) : Entry(tab, k).symbol = str
  THEN CHOOSE k \in i..(tail - 1) :
         /\ Entry(tab, k).symbol = str
         /\ \A h \in (k + 1)..(tail - 1) : Entry(tab, h).symbol # str
  ELSE -1

(* for(i = 0; i < symbolTableTail; i++) if(!strcmp(...)) break;  -1: none  *)
RECURSIVE FoundEntry(_, _, _, _)
FoundEntry(tab, tail, str, i) ==
  IF i >= tail THEN -1
  ELSE IF Entry(tab, i).symbol = str THEN i
  ELSE FoundEntry(tab, tail, str, i + 1)

(* The digits of value, least significant first: none for 0.               *)
RECURSIVE DigitsReversed(_)
DigitsReversed(value) ==
  IF value = 0 THEN <<>>
  ELSE <<(value % 10) + Ord["0"]>> \o DigitsReversed(value \div 10)

Reverse(s) == [i \in 1..Len(s) |-> s[Len(s) + 1 - i]]

(* The value is copied to the address field as a decimal string.           *)
WithValue(mem, tab, meta, value) ==
  [mem  |-> StrCpy(mem, ADD_OFF, Reverse(DigitsReversed(value))),
   tab  |-> tab,
   meta |-> meta]

AddEntry(mem, tab, meta, str) ==
  WithValue(mem,
            SetEntry(tab, meta.symbolTableTail, [symbol |-> str, value |-> meta.currMemory]),
            [symbolTableTail |-> meta.symbolTableTail + 1,
             currMemory      |-> meta.currMemory + 1],
            meta.currMemory)

Resolve(mem, tab, meta, str, found) ==
  IF found = -1 THEN AddEntry(mem, tab, meta, str)
  ELSE WithValue(mem, tab, meta, Entry(tab, found).value)

(* line is the symbol followed by two more characters (CR LF), which       *)
(* str[strLen - 2] = 0 cuts off.                                           *)
searchSymbolEntry(line, mem, tab, meta) ==
  Resolve(mem, tab, meta, SubSeq(line, 1, Uint8(Len(line)) - 2),
          FoundEntry(tab, meta.symbolTableTail, SubSeq(line, 1, Uint8(Len(line)) - 2), 0))

(* ------------------------------ lineParser ----------------------------- *)
(* Where a loop that advances ptr from p until it meets one of stops ends: *)
(* at the first such byte, or where the memory is not mapped.              *)
StopAt(buf, stk, p, stops) ==
  CHOOSE q \in p..(LINEBUFFER_SIZE + Len(stk)) :
    /\ Byte(buf, stk, q) \in stops \cup {FAULT}
    /\ \A k \in p..(q - 1) : Byte(buf, stk, k) \notin stops \cup {FAULT}

(* field[index++] = *ptr++, n times from p, index a uint8_t: the byte at   *)
(* off + j is the last one the loop stored there.                          *)
Copied(mem, off, buf, stk, p, n) ==
  [i \in DOMAIN mem |->
     IF off <= i /\ i - off < n /\ i - off < 256
     THEN Byte(buf, stk, p + (i - off) + 256 * ((n - 1 - (i - off)) \div 256))
     ELSE mem[i]]

Scan(fault, status, mem, p, index) ==
  [fault |-> fault, status |-> status, mem |-> mem, p |-> p, index |-> index]

(* The loop that copies the bytes from p up to q to the field at off.      *)
ScanTo(buf, stk, mem, off, p, q) ==
  Scan(Byte(buf, stk, q) = FAULT, SYSTEM_SUCCESS,
       Copied(mem, off, buf, stk, p, q - p), q, Uint8(q - p))

(* field[index] = 0 after the loop.                                        *)
Closed(s, off) ==
  IF s.fault THEN s ELSE [s EXCEPT !.mem = StoreByte(@, off + s.index, NUL)]

(* Until *ptr is CR: addFldString[index++] = *ptr++; then the NUL.        *)
ScanAddress(buf, stk, mem, p) ==
  Closed(ScanTo(buf, stk, mem, ADD_OFF, p, StopAt(buf, stk, p, {CR})), ADD_OFF)

(* The characters from p up to the next ')'; FAULT ends them at a fault.   *)
LabelTo(buf, stk, p, q) ==
  [k \in 1..(q - p) |-> Byte(buf, stk, p + k - 1)]
    \o (IF Byte(buf, stk, q) = FAULT THEN <<FAULT>> ELSE <<>>)

ScanLabel(buf, stk, p) == LabelTo(buf, stk, p, StopAt(buf, stk, p, {Ord[")"]}))

Faulted(str) == str # <<>> /\ str[Len(str)] = FAULT

(* Until *ptr is '=': fail at ';', else destFldString[index++] = *ptr++.   *)
DestStatus(buf, stk, s) ==
  IF Byte(buf, stk, s.p) = Ord["="] THEN s ELSE [s EXCEPT !.status = SYSTEM_FAILURE]

ScanDest(buf, stk, mem, p) ==
  DestStatus(buf, stk,
    ScanTo(buf, stk, mem, DEST_OFF, p, StopAt(buf, stk, p, {Ord["="], Ord[";"]})))

(* Until *ptr is ';' or CR: cmpFldString[index++] = *ptr++; then the NUL.  *)
ScanComp(buf, stk, mem, p) ==
  Closed(ScanTo(buf, stk, mem, CMP_OFF, p, StopAt(buf, stk, p, {Ord[";"], CR})), CMP_OFF)

(* Until *ptr is CR or ' ': jmpFldString[index++] = *ptr++; then the NUL.  *)
ScanJump(buf, stk, mem, p) ==
  Closed(ScanTo(buf, stk, mem, JMP_OFF, p, StopAt(buf, stk, p, {CR, Ord[" "]})), JMP_OFF)

(* What lineParser leaves: its status, the fields, the symbol table; fault *)
(* when it read unmapped memory, ub when a conversion was undefined.       *)
Result(status, fault, ub, mem, tab, meta) ==
  [status |-> status, fault |-> fault, ub |-> ub, mem |-> mem, tab |-> tab, meta |-> meta]

Skipped(mem, tab, meta) == Result(SYSTEM_FAILURE, FALSE, FALSE, mem, tab, meta)

Commanded(cmd, tab, meta) == Result(cmd.status, FALSE, cmd.ub, cmd.mem, tab, meta)

CommandAfter(s, conv, tab, meta) ==
  IF s.fault THEN Result(SYSTEM_FAILURE, TRUE, FALSE, s.mem, tab, meta)
  ELSE Commanded(lineCommand(s.mem, conv), tab, meta)

CommandFor(sym, conv) == Commanded(lineCommand(sym.mem, conv), sym.tab, sym.meta)

(* The '@' branch: a symbol when the first character is above '9'.         *)
ParseAInstruction(buf, stk, conv, mem, tab, meta) ==
  IF Byte(buf, stk, 1) > Ord["9"]
  THEN CommandFor(searchSymbolEntry(SubSeq(buf, 2, Len(buf)), mem, tab, meta), conv)
  ELSE CommandAfter(ScanAddress(buf, stk, mem, 1), conv, tab, meta)

SearchLabel(str, mem, tab, meta) ==
  IF Faulted(str) THEN Result(SYSTEM_FAILURE, TRUE, FALSE, mem, tab, meta)
  ELSE searchSymbolEntry(str \o <<CR, LF>>, mem, tab, meta)
         @@ [status |-> SYSTEM_FAILURE, fault |-> FALSE, ub |-> FALSE]

(* The '(' branch: the label is searched, and the line is skipped.         *)
ParseLabel(buf, stk, mem, tab, meta) == SearchLabel(ScanLabel(buf, stk, 1), mem, tab, meta)

(* DestField without the memset of destFldString when no '=' was found:   *)
(* the characters the scan copied up to the ';' stay in the field.         *)
DestFieldKept(d) ==
  IF d.fault THEN d
  ELSE IF d.status = SYSTEM_SUCCESS
  THEN Scan(FALSE, SYSTEM_SUCCESS, StoreByte(d.mem, DEST_OFF + d.index, NUL), d.p + 1, 0)
  ELSE Scan(FALSE, SYSTEM_SUCCESS, d.mem, 0, 0)

(* After the scan for '=': the destination is terminated when '=' was      *)
(* found, and cleared, with the line read again from its start, when not.  *)
DestField(d) ==
  IF d.fault THEN d
  ELSE IF d.status = SYSTEM_SUCCESS
  THEN Scan(FALSE, SYSTEM_SUCCESS, StoreByte(d.mem, DEST_OFF + d.index, NUL), d.p + 1, 0)
  ELSE Scan(FALSE, SYSTEM_SUCCESS, MemSet(d.mem, DEST_OFF, NUL, JMP_OFF - DEST_OFF), 0, 0)

CompField(buf, stk, d) ==
  IF d.fault THEN d ELSE ScanComp(buf, stk, d.mem, d.p)

JumpField(buf, stk, c) ==
  IF c.fault THEN c
  ELSE IF Byte(buf, stk, c.p) = Ord[";"] THEN ScanJump(buf, stk, c.mem, c.p + 1)
  ELSE Scan(FALSE, SYSTEM_SUCCESS, StoreByte(c.mem, JMP_OFF, NUL), c.p, 1)

(* The last branch: destination, operation and jump fields.                *)
ParseCInstruction(buf, stk, conv, mem, tab, meta) ==
  CommandAfter(
    JumpField(buf, stk,
      CompField(buf, stk,
        DestField(ScanDest(buf, stk, StoreByte(mem, ADD_OFF, INVALID_VALUE), 0)))),
    conv, tab, meta)

IsComment(buf, stk) == Byte(buf, stk, 0) = Ord["/"] /\ Byte(buf, stk, 1) = Ord["/"]

IsBlank(buf, stk) == Byte(buf, stk, 0) = CR

lineParser(buf, stk, conv, mem, tab, meta) ==
  IF IsComment(buf, stk) THEN Skipped(mem, tab, meta)
  ELSE IF IsBlank(buf, stk) THEN Skipped(mem, tab, meta)
  ELSE IF Byte(buf, stk, 0) = Ord["@"]
       THEN ParseAInstruction(buf, stk, conv, mem, tab, meta)
  ELSE IF Byte(buf, stk, 0) = Ord["("]
       THEN ParseLabel(buf, stk, mem, tab, meta)
  ELSE ParseCInstruction(buf, stk, conv, mem, tab, meta)

(* ------------------------------ lineWriter ----------------------------- *)
RECURSIVE Text(_)
Text(bytes) ==
  IF bytes = <<>> THEN ""
  ELSE (IF Head(bytes) = Ord["0"] THEN "0"
        ELSE IF Head(bytes) = Ord["1"] THEN "1" ELSE "?") \o Text(Tail(bytes))

(* The line fputs writes: the string in bitFields.                         *)
lineWriter(mem) == Text(CStrAt(mem, BIT_OFF))

(* ------------------------------ firstPass ------------------------------ *)
RECURSIVE UpToNul(_)
UpToNul(s) ==
  IF s = <<>> \/ Head(s) = NUL THEN <<>> ELSE <<Head(s)>> \o UpToNul(Tail(s))

Counted(fault, tab, meta, count) ==
  [fault |-> fault, tab |-> tab, meta |-> meta, lineCount |-> count]

(* The label's characters go to the slot at the tail, which nothing wrote  *)
(* before and so holds zeros; the tail moves on.                           *)
StoreLabel(str, tab, meta, count) ==
  IF Faulted(str) THEN Counted(TRUE, tab, meta, count)
  ELSE Counted(FALSE,
               SetEntry(tab, meta.symbolTableTail,
                        [symbol |-> UpToNul(str), value |-> count]),
               [meta EXCEPT !.symbolTableTail = @ + 1],
               count)

(* One iteration of the reading loop of firstPass.                         *)
firstPassLine(buf, stk, tab, meta, count) ==
  IF IsComment(buf, stk) \/ IsBlank(buf, stk) THEN Counted(FALSE, tab, meta, count)
  ELSE IF Byte(buf, stk, 0) = Ord["("]
       THEN StoreLabel(ScanLabel(buf, stk, 1), tab, meta, count)
  ELSE Counted(FALSE, tab, meta, count + 1)

(* ------------------------------ input lines ---------------------------- *)
(* A line as fgets stores it: its characters, CR, LF.                      *)
CRLF(text) == Bytes(text) \o <<CR, LF>>

AInstruction(operand) == CRLF(<<"@">> \o operand)

LabelLine(name) == CRLF(<<"(">> \o name \o <<")">>)

DestComp(dest, comp) == CRLF(dest \o <<"=">> \o comp)

CompJump(comp, jump) == CRLF(comp \o <<";">> \o jump)

DestCompJump(dest, comp, jump) == CRLF(dest \o <<"=">> \o comp \o <<";">> \o jump)

BareComp(comp) == CRLF(comp)

(* The sequences over S of 1 to n elements.                                *)
SeqsUpTo(S, n) == UNION {[1..k -> S] : k \in 1..n}

(* ------------------------------ the program ---------------------------- *)
(* What stands in memory above a line buffer is not the program's to       *)
(* choose: nothing mapped, a ';', an '=' and a CR, or enough other bytes   *)
(* before a ';' for the index of a copying loop, a uint8_t, to come round  *)
(* to the start of its field.                                              *)
StackSamples ==
  { <<>>,
    <<Ord[";"]>>,
    <<Ord["="], CR>>,
    [k \in 1..(256 + BIT_OFF - LINEBUFFER_SIZE) |-> Ord["7"]] \o <<Ord[";"]>> }

InitialTable ==
  [k \in 1..Len(PredefinedSymbols) |->
     [symbol |-> Bytes(PredefinedSymbols[k].name), value |-> PredefinedSymbols[k].value]]

InitialMeta == [symbolTableTail |-> SYMBOLTABLE_TAIL, currMemory |-> CURR_MEMORY]

(* The state when main calls firstPass on the opened file.                 *)
InitWith(programs) ==
  /\ program \in programs
  /\ pc = "firstPass"
  /\ filePos = 0
  /\ lineCount = 0
  /\ gSymbolTable = InitialTable
  /\ gSymbolTableMeta = InitialMeta
  /\ gInsFields = varInit(ZeroFields)
  /\ outFile = <<>>
  /\ lineOut = <<>>

(* The outcomes of an iteration of firstPass: one when it read nothing     *)
(* above the line buffer, else one for each content of the stack.          *)
FirstPassChoices(buf, c) ==
  IF ~c.fault THEN {c}
  ELSE {firstPassLine(buf, stk, gSymbolTable, gSymbolTableMeta, lineCount) :
          stk \in StackSamples}

FirstPassStep(c) ==
  /\ pc' = IF c.fault THEN "firstPassFault" ELSE pc
  /\ filePos' = IF c.fault THEN filePos ELSE filePos + 1
  /\ lineCount' = c.lineCount
  /\ gSymbolTable' = c.tab
  /\ gSymbolTableMeta' = c.meta
  /\ UNCHANGED <<program, gInsFields, outFile, lineOut>>

FirstPassLine ==
  /\ pc = "firstPass"
  /\ filePos < Len(program)
  /\ \E c \in FirstPassChoices(program[filePos + 1],
                firstPassLine(program[filePos + 1], <<>>,
                              gSymbolTable, gSymbolTableMeta, lineCount)) :
       FirstPassStep(c)

(* fgets returns NULL; main goes on to secondPass, which rewinds the file. *)
FirstPassEnd ==
  /\ pc = "firstPass"
  /\ filePos = Len(program)
  /\ pc' = "secondPass"
  /\ filePos' = 0
  /\ UNCHANGED <<program, lineCount, gSymbolTable, gSymbolTableMeta, gInsFields,
                 outFile, lineOut>>

(* The outcomes of lineParser on a line: one when it read nothing above    *)
(* the line buffer and converted no number out of range, else one for each *)
(* content of the stack and each result of the conversion.                 *)
ParserChoices(buf, r) ==
  IF ~r.fault /\ ~r.ub THEN {r}
  ELSE {lineParser(buf, stk, conv, gInsFields, gSymbolTable, gSymbolTableMeta) :
          stk \in StackSamples, conv \in ConvModes}

Written(r) == IF r.status = SYSTEM_SUCCESS THEN <<lineWriter(r.mem)>> ELSE <<>>

SecondPassStep(r) ==
  /\ pc' = IF r.fault THEN "secondPassFault" ELSE pc
  /\ filePos' = IF r.fault THEN filePos ELSE filePos + 1
  /\ gInsFields' = IF r.fault THEN r.mem ELSE varInit(r.mem)
  /\ gSymbolTable' = r.tab
  /\ gSymbolTableMeta' = r.meta
  /\ outFile' = IF r.fault THEN outFile ELSE outFile \o Written(r)
  /\ lineOut' = IF r.fault THEN lineOut ELSE Append(lineOut, Written(r))
  /\ UNCHANGED <<program, lineCount>>

(* One iteration of the loop of secondPass: lineParser, lineWriter when it *)
(* succeeded, varInit.                                                     *)
SecondPassLine ==
  /\ pc = "secondPass"
  /\ filePos < Len(program)
  /\ \E r \in ParserChoices(program[filePos + 1],
                lineParser(program[filePos + 1], <<>>, "wrap",
                           gInsFields, gSymbolTable, gSymbolTableMeta)) :
       SecondPassStep(r)

SecondPassEnd ==
  /\ pc = "secondPass"
  /\ filePos = Len(program)
  /\ pc' = "done"
  /\ UNCHANGED <<program, filePos, lineCount, gSymbolTable, gSymbolTableMeta,
                 gInsFields, outFile, lineOut>>

Next == FirstPassLine \/ FirstPassEnd \/ SecondPassLine \/ SecondPassEnd

MaxLines == 3

Lines ==
  { AInstruction(<<"i">>), AInstruction(<<"s", "u", "m">>),
    AInstruction(<<"L">>), LabelLine(<<"L">>),
    AInstruction(<<"R", "1">>), LabelLine(<<"R", "1">>),
    AInstruction(<<".", "v">>), LabelLine(<<".", "v">>),
    AInstruction(<<"5">>), DestComp(<<"D">>, <<"A">>),
    CompJump(<<"X">>, <<"J", "M", "P">>),
    CompJump(<<"A", "B", "C", "D", "E">>, <<"J", "M", "P">>),
    BareComp(<<"D", "+", "1">>), CRLF(<<"/", "/", " ", "c">>), CRLF(<<>>) }

Init == InitWith(SeqsUpTo(Lines, MaxLines))

Spec == Init /\ [][Next]_vars

(* ------------------- the computation-form instructions ----------------- *)
(* Every line dest=comp, comp;jump and dest=comp;jump over the mnemonics   *)
(* of the three tables, after a context of other lines.                    *)
MaxContext == 1

ContextLines ==
  { AInstruction(<<"i">>), LabelLine(<<"L">>),
    CompJump(<<"X">>, <<"J", "M", "P">>),
    DestCompJump(<<"A", "M", "D">>, <<"D", "|", "M">>, <<"J", "L", "E">>) }

Comps == 1..Len(compFieldLT)

Dests == 1..Len(destFieldLT)

Jumps == 1..Len(jumpFieldLT)

CLines ==
  {DestComp(destFieldLT[d].mnemonic, compFieldLT[c].mnemonic) : d \in Dests, c \in Comps}
    \cup
  {CompJump(compFieldLT[c].mnemonic, jumpFieldLT[j].mnemonic) : c \in Comps, j \in Jumps}
    \cup
  {DestCompJump(destFieldLT[d].mnemonic, compFieldLT[c].mnemonic, jumpFieldLT[j].mnemonic) :
     d \in Dests, c \in Comps, j \in Jumps}

InitCInstr ==
  InitWith({ctx \o <<line>> : ctx \in {<<>>} \cup SeqsUpTo(ContextLines, MaxContext),
                              line \in CLines})

SpecCInstr == InitCInstr /\ [][Next]_vars

(* ------------------------- the literal addresses ----------------------- *)
DigitChars == <<"0", "1", "2", "3", "4", "5", "6", "7", "8", "9">>

(* The decimal numeral of n.                                               *)
RECURSIVE Decimal(_)
Decimal(n) ==
  IF n < 10 THEN <<DigitChars[n + 1]>>
  ELSE Decimal(n \div 10) \o <<DigitChars[(n % 10) + 1]>>

(* The largest address of an address-form word: 15 bits.                   *)
MaxAddress == 2 ^ (BITFIELD_MAX - 1) - 1

InitLiteral == InitWith({<<AInstruction(Decimal(n))>> : n \in 0..MaxAddress})

SpecLiteral == InitLiteral /\ [][Next]_vars

(* ------------------------- the predefined symbols ---------------------- *)
(* For each predefined symbol P: the programs over (P), @P, a variable and *)
(* an instruction.                                                         *)
MaxPredefLines == 3

PredefLines(name) ==
  { LabelLine(name), AInstruction(name), AInstruction(<<"i">>), DestComp(<<"D">>, <<"A">>) }

InitPredef ==
  InitWith(UNION {SeqsUpTo(PredefLines(PredefinedSymbols[k].name), MaxPredefLines) :
                    k \in 1..Len(PredefinedSymbols)})

SpecPredef == InitPredef /\ [][Next]_vars

(* ===================== the properties and their terms ================== *)
(* The terms below read a source line as the assembler's description does; *)
(* none of them uses lineParser, lineCommand or searchSymbolEntry.         *)

(* The characters of a line before its CR LF.                              *)
Body(line) == SubSeq(line, 1, Len(line) - 2)

(* The position of the first b in t; Len(t) + 1 when there is none.        *)
FirstAt(t, b) ==
  CHOOSE k \in 1..(Len(t) + 1) :
    /\ k = Len(t) + 1 \/ t[k] = b
    /\ \A h \in 1..(k - 1) : t[h] # b

Before(t, b) == SubSeq(t, 1, FirstAt(t, b) - 1)

After(t, b) == SubSeq(t, FirstAt(t, b) + 1, Len(t))

IsCommentLine(line) == Len(line) >= 2 /\ line[1] = Ord["/"] /\ line[2] = Ord["/"]

IsBlankLine(line) == line = <<CR, LF>>

IsLabelLine(line) == line[1] = Ord["("]

IsAddressLine(line) == line[1] = Ord["@"]

(* Address form or computation form.                                       *)
IsInstructionLine(line) ==
  ~IsCommentLine(line) /\ ~IsBlankLine(line) /\ ~IsLabelLine(line)

IsComputationLine(line) == IsInstructionLine(line) /\ ~IsAddressLine(line)

LabelName(line) == Before(After(Body(line), Ord["("]), Ord[")"])

Operand(line) == After(Body(line), Ord["@"])

IsDigit(b) == Ord["0"] <= b /\ b <= Ord["9"]

IsNumeral(t) == t # <<>> /\ \A k \in 1..Len(t) : IsDigit(t[k])

RECURSIVE NumeralValue(_)
NumeralValue(t) ==
  IF t = <<>> THEN 0
  ELSE 10 * NumeralValue(SubSeq(t, 1, Len(t) - 1)) + (t[Len(t)] - Ord["0"])

(* The fields of a computation-form line: the destination is what stands   *)
(* before an '=' that comes before any ';'.                                *)
HasDest(line) == FirstAt(Body(line), Ord["="]) < FirstAt(Body(line), Ord[";"])

DestText(line) == IF HasDest(line) THEN Before(Body(line), Ord["="]) ELSE <<>>

Remainder(line) == IF HasDest(line) THEN After(Body(line), Ord["="]) ELSE Body(line)

CompText(line) == Before(Remainder(line), Ord[";"])

JumpText(line) == Before(After(Remainder(line), Ord[";"]), Ord[" "])

Matches(table, text) == \E k \in 1..Len(table) : table[k].mnemonic = text

RECURSIVE Join(_)
Join(chars) == IF chars = <<>> THEN "" ELSE Head(chars) \o Join(Tail(chars))

(* The code a table gives for a mnemonic, as text.                         *)
CodeOf(table, encoded, text) ==
  Join(table[CHOOSE k \in 1..Len(table) : encoded[k].mnemonic = text].binary)

(* n in binary on width characters, most significant bit first.            *)
RECURSIVE BinaryText(_, _)
BinaryText(n, width) ==
  IF width = 0 THEN ""
  ELSE BinaryText(n \div 2, width - 1) \o (IF n % 2 = 1 THEN "1" ELSE "0")

(* The lines pass two has gone through: 1 to Len(lineOut).                 *)
Processed == 1..Len(lineOut)

AfterPassOne == pc \in {"secondPass", "done"}

(* ------------------------------------------------------------------------ *)
(* C1: every line dest=comp, comp;jump or dest=comp;jump whose three       *)
(* fields are mnemonics of the tables is emitted by pass two as "111", the *)
(* code of comp, the code of dest and the code of jump (000 for an absent  *)
(* destination or jump), whatever lines came before it.                    *)
IsTableInstruction(line) ==
  /\ IsComputationLine(line)
  /\ \E k \in 1..Len(Body(line)) : Body(line)[k] \in {Ord["="], Ord[";"]}
  /\ Matches(compTable, CompText(line))
  /\ Matches(destTable, DestText(line))
  /\ Matches(jumpTable, JumpText(line))

TableWord(line) ==
  "111" \o CodeOf(compFieldLT, compTable, CompText(line))
        \o CodeOf(destFieldLT, destTable, DestText(line))
        \o CodeOf(jumpFieldLT, jumpTable, JumpText(line))

C1_TableWord ==
  \A i \in Processed :
    IsTableInstruction(program[i]) => lineOut[i] = <<TableWord(program[i])>>

(* MD=D+1;JEQ has been emitted after a rejected line.                      *)
C1_Witness ==
  /\ pc = "done"
  /\ program = << CompJump(<<"X">>, <<"J", "M", "P">>),
                  DestCompJump(<<"M", "D">>, <<"D", "+", "1">>, <<"J", "E", "Q">>) >>
  /\ lineOut = << <<>>, <<"1110011111011010">> >>

(* ------------------------------------------------------------------------ *)
(* C2: every line @n, n the decimal numeral of an integer from 0 to 32767, *)
(* is emitted by pass two as "0" followed by the 15 binary digits of n,    *)
(* most significant first.                                                 *)
IsLiteralLine(line) ==
  /\ IsAddressLine(line)
  /\ IsNumeral(Operand(line))
  /\ Len(Operand(line)) <= Len(Decimal(MaxAddress))
  /\ NumeralValue(Operand(line)) <= MaxAddress
  /\ Operand(line) = Bytes(Decimal(NumeralValue(Operand(line))))

C2_LiteralWord ==
  \A i \in Processed :
    IsLiteralLine(program[i]) =>
      lineOut[i] = <<"0" \o BinaryText(NumeralValue(Operand(program[i])), BITFIELD_MAX - 1)>>

(* @32767 has been emitted.                                                *)
C2_Witness ==
  /\ pc = "done"
  /\ program = <<AInstruction(<<"3", "2", "7", "6", "7">>)>>
  /\ lineOut = << <<"0111111111111111">> >>

(* ------------------------------------------------------------------------ *)
(* C8: in every state the 23 predefined symbols (R0..R15 = 0..15,          *)
(* SCREEN = 16384, KBD = 24576, SP, LCL, ARG, THIS, THAT = 0..4) are in    *)
(* the first 23 slots of the table with these values, and every @P of a    *)
(* predefined P is emitted as the 16 binary digits of the value of P,      *)
(* also when the program declares a label (P) or allocates variables.      *)
ArchitecturalSymbols ==
  {[name |-> <<"R">> \o Decimal(k), value |-> k] : k \in 0..15}
    \cup
  { [name |-> <<"S", "C", "R", "E", "E", "N">>, value |-> 16384],
    [name |-> <<"K", "B", "D">>,                value |-> 24576],
    [name |-> <<"S", "P">>,                     value |-> 0],
    [name |-> <<"L", "C", "L">>,                value |-> 1],
    [name |-> <<"A", "R", "G">>,                value |-> 2],
    [name |-> <<"T", "H", "I", "S">>,           value |-> 3],
    [name |-> <<"T", "H", "A", "T">>,           value |-> 4] }

(* The slot of each of them, its reference and the word of the reference.  *)
ArchitecturalEntries ==
  {[symbol |-> Bytes(e.name), value |-> e.value] : e \in ArchitecturalSymbols}

ArchitecturalWords ==
  {[line |-> AInstruction(e.name), word |-> BinaryText(e.value, BITFIELD_MAX)] :
     e \in ArchitecturalSymbols}

C8_Predefined ==
  /\ gSymbolTableMeta.symbolTableTail >= Cardinality(ArchitecturalSymbols)
  /\ ArchitecturalEntries =
       {Entry(gSymbolTable, k) : k \in 0..(Cardinality(ArchitecturalSymbols) - 1)}
  /\ \A i \in Processed : \A w \in ArchitecturalWords :
       program[i] = w.line => lineOut[i] = <<w.word>>

(* @SP has been emitted as 0 after a variable was allocated and a label    *)
(* (SP) was declared at instruction 1.                                     *)
C8_Witness ==
  /\ pc = "done"
  /\ program = << AInstruction(<<"i">>), LabelLine(<<"S", "P">>), AInstruction(<<"S", "P">>) >>
  /\ gSymbolTableMeta.currMemory = CURR_MEMORY + 1
  /\ Entry(gSymbolTable, SYMBOLTABLE_TAIL) = [symbol |-> Bytes(<<"S", "P">>), value |-> 1]
  /\ lineOut[3] = <<"0000000000000000">>

(* ------------------------------------------------------------------------ *)
(* C3: for a label L, not a predefined name, that one line (L) declares,   *)
(* pass one stores the number of instruction lines before the declaration  *)
(* (comments, blank lines and label lines not counted), and pass two emits *)
(* every @L as the 16 binary digits of that number.                        *)
PredefinedNames == {InitialTable[k].symbol : k \in 1..Len(InitialTable)}

DeclaredOnce(d) ==
  /\ IsLabelLine(program[d])
  /\ \A e \in 1..Len(program) :
       IsLabelLine(program[e]) /\ LabelName(program[e]) = LabelName(program[d]) => e = d

InstructionsBefore(d) == Cardinality({j \in 1..(d - 1) : IsInstructionLine(program[j])})

C3_LabelResolution ==
  \A d \in 1..Len(program) :
    DeclaredOnce(d) /\ LabelName(program[d]) \notin PredefinedNames =>
      /\ AfterPassOne =>
           \E k \in 0..(gSymbolTableMeta.symbolTableTail - 1) :
             Entry(gSymbolTable, k) =
               [symbol |-> LabelName(program[d]), value |-> InstructionsBefore(d)]
      /\ \A i \in Processed :
           IsAddressLine(program[i]) /\ Operand(program[i]) = LabelName(program[d]) =>
             lineOut[i] = <<BinaryText(InstructionsBefore(d), BITFIELD_MAX)>>

(* ------------------------------------------------------------------------ *)
(* C4: the k-th distinct symbol of an @name line that is neither           *)
(* predefined nor a declared label gets the address 16 + k, in order of    *)
(* first reference; later references emit the same address, and the        *)
(* cursor advances for nothing else (not for a label line of pass two).    *)
DeclaredLabels ==
  {LabelName(program[d]) : d \in {e \in 1..Len(program) : IsLabelLine(program[e])}}

IsVariableLine(line) ==
  /\ IsAddressLine(line)
  /\ Operand(line) # <<>>
  /\ ~IsDigit(Operand(line)[1])
  /\ Operand(line) \notin PredefinedNames
  /\ Operand(line) \notin DeclaredLabels

VariablesBefore(i) ==
  {Operand(program[j]) : j \in {h \in 1..(i - 1) : IsVariableLine(program[h])}}

FirstReference(i) ==
  CHOOSE f \in 1..i :
    /\ program[f] = program[i]
    /\ \A g \in 1..(f - 1) : program[g] # program[i]

C4_Allocation ==
  /\ \A i \in Processed :
       IsVariableLine(program[i]) =>
         lineOut[i] = <<BinaryText(CURR_MEMORY + Cardinality(VariablesBefore(FirstReference(i))),
                                   BITFIELD_MAX)>>
  /\ AfterPassOne =>
       gSymbolTableMeta.currMemory
         = CURR_MEMORY + Cardinality(VariablesBefore(Len(lineOut) + 1))

(* ------------------------------------------------------------------------ *)
(* C5: on a computation-form line one of whose fields matches no mnemonic  *)
(* of its table, pass two writes nothing and goes on to the next line with *)
(* the state it would have had without the line.                           *)
IsRejected(line) ==
  /\ IsComputationLine(line)
  /\ \/ ~Matches(compTable, CompText(line))
     \/ ~Matches(destTable, DestText(line))
     \/ ~Matches(jumpTable, JumpText(line))

C5_Rejection ==
  [][ pc = "secondPass" /\ filePos < Len(program) /\ IsRejected(program[filePos + 1]) =>
        /\ pc' = "secondPass"
        /\ filePos' = filePos + 1
        /\ lineOut' = Append(lineOut, <<>>)
        /\ UNCHANGED <<outFile, gInsFields, gSymbolTable, gSymbolTableMeta>> ]_vars

(* ------------------------------------------------------------------------ *)
(* C6: the operand of an address line is a literal exactly when its first  *)
(* character is a digit; with any other first character it is looked up or *)
(* allocated in the symbol table, and the word is the value of its entry.  *)
FirstEntry(name) ==
  CHOOSE k \in 0..(gSymbolTableMeta.symbolTableTail - 1) :
    /\ Entry(gSymbolTable, k).symbol = name
    /\ \A h \in 0..(k - 1) : Entry(gSymbolTable, h).symbol # name

C6_Classification ==
  \A i \in Processed :
    IsAddressLine(program[i]) /\ Operand(program[i]) # <<>> =>
      IF IsDigit(Operand(program[i])[1])
      THEN IsLiteralLine(program[i]) =>
             lineOut[i] = <<BinaryText(NumeralValue(Operand(program[i])), BITFIELD_MAX)>>
      ELSE /\ \E k \in 0..(gSymbolTableMeta.symbolTableTail - 1) :
                Entry(gSymbolTable, k).symbol = Operand(program[i])
           /\ lineOut[i] =
                <<BinaryText(Entry(gSymbolTable, FirstEntry(Operand(program[i]))).value,
                             BITFIELD_MAX)>>

(* ------------------------------------------------------------------------ *)
(* C7: the address pass one stores for a label is the number of words pass *)
(* two emits for the lines before the declaration, also when pass two      *)
(* rejects some of these lines.                                            *)
LabelsBefore(d) == Cardinality({j \in 1..(d - 1) : IsLabelLine(program[j])})

WordsBefore(d) == Cardinality({j \in 1..(d - 1) : lineOut[j] # <<>>})

C7_LabelIsOutputPosition ==
  \A d \in 1..Len(program) :
    IsLabelLine(program[d]) /\ AfterPassOne /\ Len(lineOut) >= d - 1 =>
      Entry(gSymbolTable, SYMBOLTABLE_TAIL + LabelsBefore(d)).value = WordsBefore(d)

(* ------------------------------------------------------------------------ *)
(* C9: after pass one and during pass two no two slots below the tail of   *)
(* the symbol table hold the same name.                                    *)
C9_UniqueNames ==
  AfterPassOne =>
    \A a, b \in 0..(gSymbolTableMeta.symbolTableTail - 1) :
      a # b => Entry(gSymbolTable, a).symbol # Entry(gSymbolTable, b).symbol

(* ------------------------------------------------------------------------ *)
(* C10: a line that is an operation mnemonic alone, with no '=' and no     *)
(* ';', is read without leaving the line buffer and is emitted as "111",   *)
(* the code of the mnemonic, "000" and "000".                              *)
IsBareOperation(line) ==
  /\ IsComputationLine(line)
  /\ \A k \in 1..Len(Body(line)) : Body(line)[k] \notin {Ord["="], Ord[";"]}
  /\ Matches(compTable, Body(line))

C10_BareOperation ==
  /\ \A i \in Processed :
       IsBareOperation(program[i]) =>
         lineOut[i] = <<"111" \o CodeOf(compFieldLT, compTable, Body(program[i]))
                              \o "000" \o "000">>
  /\ pc = "secondPassFault" => ~IsBareOperation(program[filePos + 1])
====
